---- MODULE Spec2Model ----
(***************************************************************************)
(* Model of src/main.c: a userspace driver for an ACPI Embedded Controller *)
(* (EC) reached through the command/status port 0x66 and the data port     *)
(* 0x62.  Two threads (main and the monitor thread started by              *)
(* pthread_create) run ec_read against one simulated EC.  Every port       *)
(* access (inb/outb) is one atomic step; the statements between two port   *)
(* accesses of a thread belong to the step of the second.                  *)
(***************************************************************************)
EXTENDS Integers, Sequences, FiniteSets, TLC

VARIABLES
    pc,        \* [thread -> position in main / ec_dump_selected / acpi_check / ec_monitor_loop]
    ep,        \* [thread -> position inside ec_read / ec_write ("none", "ret" or a line)]
    addr,      \* [thread -> the addr argument of the running ec_read / ec_write]
    wval,      \* [thread -> the value argument of the running ec_write]
    ret,       \* [thread -> value returned by the last ec_read]
    st,        \* [thread -> last byte read from the status port, -1 before any]
    i,         \* loop index of ec_dump_selected
    ec,        \* the simulated EC: flags, buffers, protocol state
    regs,      \* the simulated EC's register contents
    hi,        \* the upper status bits (4..7) of this run
    bus,       \* history: every access to the command or data port, in order
    out,       \* history: [thread -> what it printed on stdout]
    err,       \* history: what was printed on stderr
    exit,      \* exit status of the process, -1 while it runs
    ioperm,    \* history: the results of the ioperm calls made
    coord,     \* history: the steps main has taken
    ticks,     \* history: the value read in each monitor tick
    naps,      \* number of sleep(1) calls the monitor has completed
    script,    \* unit harness: which calls it makes
    ua, uv, ur \* unit harness: address, value, result

vars == <<pc, ep, addr, wval, ret, st, i, ec, regs, hi, bus, out, err, exit,
          ioperm, coord, ticks, naps, script, ua, uv, ur>>

Threads == {"main", "mon"}

----------------------------------------------------------------------------
(* Program constants *)

EC_SC == 102
EC_DATA == 98
RD_EC == 128
WR_EC == 129
IBF == 2
OBF == 1
MON_REG == 0
THRESHOLD == 75
ACPI_REG == 1

registers == <<80, 81, 82, 83, 84, 85, 86, 87, 88, 89>>

(* Bounds of the model *)

MaxTicks == 2

HighBits == {0, 240}
Seeds == {0, 1, 200}
\* the EC images the whole program is run against: the monitored register,
\* the ACPI flag register, the seed of the snapshot registers, the upper status bits
Images == {[t |-> 50, a |-> 3, seed |-> 0, hi |-> 0],
           [t |-> 75, a |-> 200, seed |-> 1, hi |-> 240],
           [t |-> 76, a |-> 3, seed |-> 200, hi |-> 0],
           [t |-> 80, a |-> 200, seed |-> 0, hi |-> 240]}
UnitAddrs == {0, 80, 128, 129, 255}
UnitVals == {0, 1, 76, 128, 129, 255}
IopermResults == {0, -1}

----------------------------------------------------------------------------
(* Bit tests of the wait loops *)

BitAnd(s, m) == IF (s \div m) % 2 = 1 THEN m ELSE 0

\* seeded fault: ec_wait_ibf tests the OBF bit
IbfBusy_WrongBit(s) == BitAnd(s, OBF) /= 0

\* seeded fault: ec_wait_ibf tests the whole status byte, without the 0x02 mask
IbfBusy_NoMask(s) == s /= 0

IbfBusy(s) == BitAnd(s, IBF) /= 0

\* seeded fault: ec_wait_obf stops waiting as soon as the EC has consumed the address byte
ObfEmpty_UntilConsumed(s) == BitAnd(s, OBF) = 0 /\ BitAnd(s, IBF) /= 0

ObfEmpty(s) == ~(BitAnd(s, OBF) /= 0)

----------------------------------------------------------------------------
(* The simulated EC *)

EcIdle == [ibf |-> 0, obf |-> 0, cmd |-> FALSE, inp |-> 0, dat |-> 0,
           mode |-> "idle", waddr |-> 0]

RegVal(a) == IF a \in DOMAIN regs THEN regs[a] ELSE 0

Status == hi + (IF ec.cmd THEN 8 ELSE 0) + IBF * ec.ibf + OBF * ec.obf

\* the EC after the host wrote byte b to port p
EcAfterOut(p, b) ==
    IF p = EC_SC \/ p = EC_DATA
    THEN [ec EXCEPT !.ibf = 1, !.inp = b, !.cmd = (p = EC_SC)]
    ELSE ec

\* the EC after the host read the data port
EcAfterIn == [ec EXCEPT !.obf = 0]

\* the EC consumes the byte in its input buffer
EcStep ==
    /\ ec.ibf = 1
    /\ IF ec.cmd
       THEN /\ ec' = [ec EXCEPT !.ibf = 0, !.inp = 0,
                        !.mode = IF ec.inp = 128 THEN "rd_addr"
                                 ELSE IF ec.inp = 129 THEN "wr_addr"
                                 ELSE "idle"]
            /\ UNCHANGED regs
       ELSE CASE ec.mode = "rd_addr" ->
                   /\ ec' = [ec EXCEPT !.ibf = 0, !.inp = 0, !.mode = "idle", !.obf = 1,
                               !.dat = RegVal(ec.inp)]
                   /\ UNCHANGED regs
              [] ec.mode = "wr_addr" ->
                   /\ ec' = [ec EXCEPT !.ibf = 0, !.inp = 0, !.mode = "wr_val", !.waddr = ec.inp]
                   /\ UNCHANGED regs
              [] ec.mode = "wr_val" ->
                   /\ ec' = [ec EXCEPT !.ibf = 0, !.inp = 0, !.mode = "idle"]
                   /\ regs' = [a \in DOMAIN regs \cup {ec.waddr} |->
                                 IF a = ec.waddr THEN ec.inp ELSE regs[a]]
              [] OTHER ->
                   /\ ec' = [ec EXCEPT !.ibf = 0, !.inp = 0]
                   /\ UNCHANGED regs
    /\ UNCHANGED <<pc, ep, addr, wval, ret, st, i, hi, bus, out, err, exit,
                   ioperm, coord, ticks, naps, script, ua, uv, ur>>

----------------------------------------------------------------------------
(* Port access layer *)

Access(t, op, port, b) ==
    [who |-> t, op |-> op, port |-> port, val |-> b,
     seen |-> IF st[t] < 0 THEN -1
              ELSE IF op = "out" THEN BitAnd(st[t], IBF) ELSE BitAnd(st[t], OBF)]

\* outb(b, port) by thread t
Outb(t, b, port) ==
    /\ ec' = EcAfterOut(port, b)
    /\ bus' = Append(bus, Access(t, "out", port, b))

----------------------------------------------------------------------------
(* EC transaction engine: ec_wait_ibf, ec_wait_obf, ec_read, ec_write *)

IbfWaits == {"rd28", "rd30", "wr37", "wr39", "wr41"}
ObfWaits == {"rd32"}

After(p) ==
    CASE p = "rd28" -> "rd29" [] p = "rd29" -> "rd30" [] p = "rd30" -> "rd31"
      [] p = "rd31" -> "rd32" [] p = "rd32" -> "rd33" [] p = "rd33" -> "ret"
      [] p = "wr37" -> "wr38" [] p = "wr38" -> "wr39" [] p = "wr39" -> "wr40"
      [] p = "wr40" -> "wr41" [] p = "wr41" -> "wr42" [] p = "wr42" -> "ret"

\* one poll of ec_wait_ibf: while (inb(EC_SC) & 0x02);
EcWaitIbf(t) ==
    /\ ep[t] \in IbfWaits
    /\ st' = [st EXCEPT ![t] = Status]
    /\ ep' = [ep EXCEPT ![t] = IF IbfBusy(Status) THEN ep[t] ELSE After(ep[t])]
    /\ UNCHANGED <<pc, addr, wval, ret, i, ec, regs, hi, bus, out, err, exit,
                   ioperm, coord, ticks, naps, script, ua, uv, ur>>

\* one poll of ec_wait_obf: while (!(inb(EC_SC) & 0x01));
EcWaitObf(t) ==
    /\ ep[t] \in ObfWaits
    /\ st' = [st EXCEPT ![t] = Status]
    /\ ep' = [ep EXCEPT ![t] = IF ObfEmpty(Status) THEN ep[t] ELSE After(ep[t])]
    /\ UNCHANGED <<pc, addr, wval, ret, i, ec, regs, hi, bus, out, err, exit,
                   ioperm, coord, ticks, naps, script, ua, uv, ur>>

\* seeded faults: ec_read issues the Write command; ec_read sends the address to the command port
ReadCmdByte_Write == WR_EC
ReadAddrPort_Cmd == EC_SC

ReadCmdByte == RD_EC
ReadCmdPort == EC_SC
\* seeded fault: ec_read sends the address after the requested one
ReadAddrByte_Next(t) == (addr[t] + 1) % 256

ReadAddrByte(t) == addr[t]
ReadAddrPort == EC_DATA

\* ec_read: outb(0x80, EC_SC)
ReadOutCmd(t) ==
    /\ ep[t] = "rd29"
    /\ Outb(t, ReadCmdByte, ReadCmdPort)
    /\ ep' = [ep EXCEPT ![t] = After(ep[t])]
    /\ UNCHANGED <<pc, addr, wval, ret, st, i, regs, hi, out, err, exit,
                   ioperm, coord, ticks, naps, script, ua, uv, ur>>

\* ec_read: outb(addr, EC_DATA)
ReadOutAddr(t) ==
    /\ ep[t] = "rd31"
    /\ Outb(t, ReadAddrByte(t), ReadAddrPort)
    /\ ep' = [ep EXCEPT ![t] = After(ep[t])]
    /\ UNCHANGED <<pc, addr, wval, ret, st, i, regs, hi, out, err, exit,
                   ioperm, coord, ticks, naps, script, ua, uv, ur>>

\* the value ec_read returns, given the byte inb(EC_DATA) delivered
ReadResult(b) == b % 256

\* ec_read: return inb(EC_DATA)
ReadInData(t) ==
    /\ ep[t] = "rd33"
    /\ ec' = EcAfterIn
    /\ bus' = Append(bus, Access(t, "in", EC_DATA, ec.dat))
    /\ ret' = [ret EXCEPT ![t] = ReadResult(ec.dat)]
    /\ ep' = [ep EXCEPT ![t] = After(ep[t])]
    /\ UNCHANGED <<pc, addr, wval, st, i, regs, hi, out, err, exit,
                   ioperm, coord, ticks, naps, script, ua, uv, ur>>

ReadSteps(t) ==
    \/ EcWaitIbf(t)
    \/ EcWaitObf(t)
    \/ ReadOutCmd(t)
    \/ ReadOutAddr(t)
    \/ ReadInData(t)

\* seeded faults: ec_write issues the Read command; ec_write sends addr as the value
WriteCmdByte_Read == RD_EC
WriteValByte_Addr(t) == addr[t]

WriteCmdByte == WR_EC
WriteAddrByte(t) == addr[t]
WriteValByte(t) == wval[t]

\* ec_write: outb(0x81, EC_SC)
WriteOutCmd(t) ==
    /\ ep[t] = "wr38"
    /\ Outb(t, WriteCmdByte, EC_SC)
    /\ ep' = [ep EXCEPT ![t] = After(ep[t])]
    /\ UNCHANGED <<pc, addr, wval, ret, st, i, regs, hi, out, err, exit,
                   ioperm, coord, ticks, naps, script, ua, uv, ur>>

\* ec_write: outb(addr, EC_DATA)
WriteOutAddr(t) ==
    /\ ep[t] = "wr40"
    /\ Outb(t, WriteAddrByte(t), EC_DATA)
    /\ ep' = [ep EXCEPT ![t] = After(ep[t])]
    /\ UNCHANGED <<pc, addr, wval, ret, st, i, regs, hi, out, err, exit,
                   ioperm, coord, ticks, naps, script, ua, uv, ur>>

\* ec_write: outb(value, EC_DATA)
WriteOutVal(t) ==
    /\ ep[t] = "wr42"
    /\ Outb(t, WriteValByte(t), EC_DATA)
    /\ ep' = [ep EXCEPT ![t] = After(ep[t])]
    /\ UNCHANGED <<pc, addr, wval, ret, st, i, regs, hi, out, err, exit,
                   ioperm, coord, ticks, naps, script, ua, uv, ur>>

\* a call of ec_read(a) / ec_write(a, v) by thread t: the callee starts at its first line
CallRead(t, a) ==
    /\ ep' = [ep EXCEPT ![t] = "rd28"]
    /\ addr' = [addr EXCEPT ![t] = a % 256]

CallWrite(t, a, v) ==
    /\ ep' = [ep EXCEPT ![t] = "wr37"]
    /\ addr' = [addr EXCEPT ![t] = a % 256]
    /\ wval' = [wval EXCEPT ![t] = v % 256]

----------------------------------------------------------------------------
(* Snapshot reporter: ec_dump_selected *)

Line(k, a, v) == [k |-> k, a |-> a, v |-> v]

\* seeded fault: the Flag line prints the whole value instead of value & 0x01
Interpret_RawFlag(a, v) ==
    CASE a = 80 -> <<Line("Temperature", a, v)>>
      [] a = 81 -> <<Line("Fan Speed", a, v)>>
      [] a = 82 -> <<Line("Flag", a, v)>>
      [] OTHER -> <<>>

\* the switch of ec_dump_selected: the interpreted line for register a, if any
Interpret(a, v) ==
    CASE a = 80 -> <<Line("Temperature", a, v)>>
      [] a = 81 -> <<Line("Fan Speed", a, v)>>
      [] a = 82 -> <<Line("Flag", a, BitAnd(v, 1))>>
      [] OTHER -> <<>>

\* the loop condition i < sizeof(registers)/sizeof(registers[0]), i counted from 0
DumpMore(n) == n < Len(registers)

\* seeded fault: main starts the monitor thread before the snapshot
MainNext_CreateFirst(p) ==
    CASE p = "ec_init" -> "create"
      [] p = "create" -> "dump"
      [] p = "dump" -> "acpi"
      [] p = "acpi" -> "join"
      [] p = "join" -> "returned"

\* the coordinator's next step after step p
MainNext(p) ==
    CASE p = "ec_init" -> "dump"
      [] p = "dump" -> "create"
      [] p = "create" -> "acpi"
      [] p = "acpi" -> "join"
      [] p = "join" -> "returned"

\* seeded fault: the loop index is not reset (static int i)
DumpStartIndex_Kept == i

\* for (int i = 0; ...
DumpStartIndex == 0

DumpEnter ==
    /\ pc["main"] = "dump"
    /\ out' = [out EXCEPT !["main"] = Append(@, Line("Dumping", 0, 0))]
    /\ i' = DumpStartIndex
    /\ pc' = [pc EXCEPT !["main"] = "dump_loop"]
    /\ coord' = Append(coord, "dump")
    /\ UNCHANGED <<ep, addr, wval, ret, st, ec, regs, hi, bus, err, exit,
                   ioperm, ticks, naps, script, ua, uv, ur>>

DumpLoop ==
    /\ pc["main"] = "dump_loop"
    /\ IF DumpMore(i)
       THEN /\ CallRead("main", registers[i + 1])
            /\ pc' = [pc EXCEPT !["main"] = "dump_read"]
            /\ UNCHANGED coord
       ELSE /\ pc' = [pc EXCEPT !["main"] = MainNext("dump")]
            /\ coord' = Append(coord, "dump_done")
            /\ UNCHANGED <<ep, addr>>
    /\ UNCHANGED <<wval, ret, st, i, ec, regs, hi, bus, out, err, exit,
                   ioperm, ticks, naps, script, ua, uv, ur>>

DumpPrint ==
    /\ pc["main"] = "dump_read"
    /\ ep["main"] = "ret"
    /\ out' = [out EXCEPT !["main"] =
                  Append(@, Line("Register", registers[i + 1], ret["main"]))
                  \o Interpret(registers[i + 1], ret["main"])]
    /\ i' = i + 1
    /\ ep' = [ep EXCEPT !["main"] = "none"]
    /\ pc' = [pc EXCEPT !["main"] = "dump_loop"]
    /\ UNCHANGED <<addr, wval, ret, st, ec, regs, hi, bus, err, exit,
                   ioperm, coord, ticks, naps, script, ua, uv, ur>>

----------------------------------------------------------------------------
(* Background sampler: ec_monitor_loop *)

\* seeded fault: the loop ends after a reading above the threshold
LoopCond_UntilHot == ticks = <<>> \/ ticks[Len(ticks)] <= THRESHOLD

\* while (true)
LoopCond == TRUE

\* seeded fault: >= instead of >
Exceeds_Inclusive(temp) == temp >= THRESHOLD

\* if (temp > 75)
Exceeds(temp) == temp > THRESHOLD

\* seeded fault: the loop has no sleep(1)
MonAfterCheck_NoSleep == "mon_loop"

\* the statement after the threshold check: sleep(1)
MonAfterCheck == "mon_sleep"

MonStart ==
    /\ pc["mon"] = "mon_start"
    /\ out' = [out EXCEPT !["mon"] = Append(@, Line("Starting", 0, 0))]
    /\ pc' = [pc EXCEPT !["mon"] = "mon_loop"]
    /\ UNCHANGED <<ep, addr, wval, ret, st, i, ec, regs, hi, bus, err, exit,
                   ioperm, coord, ticks, naps, script, ua, uv, ur>>

MonLoop ==
    /\ pc["mon"] = "mon_loop"
    /\ IF LoopCond
       THEN /\ CallRead("mon", MON_REG)
            /\ pc' = [pc EXCEPT !["mon"] = "mon_read"]
       ELSE /\ pc' = [pc EXCEPT !["mon"] = "stopped"]
            /\ UNCHANGED <<ep, addr>>
    /\ UNCHANGED <<wval, ret, st, i, ec, regs, hi, bus, out, err, exit,
                   ioperm, coord, ticks, naps, script, ua, uv, ur>>

MonCheck ==
    /\ pc["mon"] = "mon_read"
    /\ ep["mon"] = "ret"
    /\ ticks' = Append(ticks, ret["mon"])
    /\ out' = IF Exceeds(ret["mon"])
              THEN [out EXCEPT !["mon"] =
                      Append(@, Line("Warning", Len(ticks) + 1, ret["mon"]))]
              ELSE out
    /\ ep' = [ep EXCEPT !["mon"] = "none"]
    /\ pc' = [pc EXCEPT !["mon"] = MonAfterCheck]
    /\ UNCHANGED <<addr, wval, ret, st, i, ec, regs, hi, bus, err, exit,
                   ioperm, coord, naps, script, ua, uv, ur>>

\* sleep(1) returns; the model follows the loop for MaxTicks ticks
MonSleep ==
    /\ pc["mon"] = "mon_sleep"
    /\ naps < MaxTicks - 1
    /\ naps' = naps + 1
    /\ pc' = [pc EXCEPT !["mon"] = "mon_loop"]
    /\ UNCHANGED <<ep, addr, wval, ret, st, i, ec, regs, hi, bus, out, err, exit,
                   ioperm, coord, ticks, script, ua, uv, ur>>

----------------------------------------------------------------------------
(* acpi_check *)

AcpiCall ==
    /\ pc["main"] = "acpi"
    /\ out' = [out EXCEPT !["main"] = Append(@, Line("Checking", 0, 0))]
    /\ CallRead("main", ACPI_REG)
    /\ pc' = [pc EXCEPT !["main"] = "acpi_read"]
    /\ coord' = Append(coord, "acpi")
    /\ UNCHANGED <<wval, ret, st, i, ec, regs, hi, bus, err, exit,
                   ioperm, ticks, naps, script, ua, uv, ur>>

AcpiPrint ==
    /\ pc["main"] = "acpi_read"
    /\ ep["main"] = "ret"
    /\ out' = [out EXCEPT !["main"] = Append(@, Line("ACPI Flag", ACPI_REG, ret["main"]))]
    /\ ep' = [ep EXCEPT !["main"] = "none"]
    /\ pc' = [pc EXCEPT !["main"] = MainNext("acpi")]
    /\ coord' = Append(coord, "acpi_done")
    /\ UNCHANGED <<addr, wval, ret, st, i, ec, regs, hi, bus, err, exit,
                   ioperm, ticks, naps, script, ua, uv, ur>>

----------------------------------------------------------------------------
(* Coordinator: ec_init and main *)

\* seeded fault: && instead of ||
InitFails_And(r1, r2) == r1 /= 0 /\ r2 /= 0

\* if (ioperm(EC_SC, 1, 1) || ioperm(EC_DATA, 1, 1))
InitFails(r1, r2) == r1 /= 0 \/ r2 /= 0

\* exit(1)
FailStatus == 1

EcInit ==
    /\ pc["main"] = "ec_init"
    /\ \E r1, r2 \in IopermResults :
         /\ ioperm' = IF r1 /= 0 THEN <<r1>> ELSE <<r1, r2>>
         /\ IF InitFails(r1, r2)
            THEN /\ err' = Append(err, "ioperm")
                 /\ exit' = FailStatus
                 /\ pc' = [pc EXCEPT !["main"] = "exited"]
            ELSE /\ pc' = [pc EXCEPT !["main"] = MainNext("ec_init")]
                 /\ UNCHANGED <<err, exit>>
    /\ coord' = Append(coord, "ec_init")
    /\ UNCHANGED <<ep, addr, wval, ret, st, i, ec, regs, hi, bus, out,
                   ticks, naps, script, ua, uv, ur>>

\* pthread_create(&monitor_thread, NULL, ec_monitor_loop, NULL), taken to succeed
MainCreate ==
    /\ pc["main"] = "create"
    /\ pc' = [pc EXCEPT !["main"] = MainNext("create"), !["mon"] = "mon_start"]
    /\ coord' = Append(coord, "create")
    /\ UNCHANGED <<ep, addr, wval, ret, st, i, ec, regs, hi, bus, out, err, exit,
                   ioperm, ticks, naps, script, ua, uv, ur>>

\* pthread_join(monitor_thread, NULL); return 0: blocked while the monitor runs
MainJoin ==
    /\ pc["main"] = "join"
    /\ IF pc["mon"] = "stopped"
       THEN /\ pc' = [pc EXCEPT !["main"] = MainNext("join")]
            /\ exit' = 0
       ELSE UNCHANGED <<pc, exit>>
    /\ UNCHANGED <<ep, addr, wval, ret, st, i, ec, regs, hi, bus, out, err,
                   ioperm, coord, ticks, naps, script, ua, uv, ur>>

----------------------------------------------------------------------------
(* The whole program against the simulated EC *)

InitRegs(t, a, seed) ==
    [r \in {MON_REG, ACPI_REG} \cup {registers[k] : k \in 1..Len(registers)} |->
        IF r = MON_REG THEN t
        ELSE IF r = ACPI_REG THEN a
        ELSE (r * 3 + seed) % 256]

InitCommon ==
    /\ ep = [t \in Threads |-> "none"]
    /\ addr = [t \in Threads |-> 0]
    /\ wval = [t \in Threads |-> 0]
    /\ ret = [t \in Threads |-> -1]
    /\ st = [t \in Threads |-> -1]
    /\ i = 0
    /\ ec = EcIdle
    /\ bus = <<>>
    /\ out = [t \in Threads |-> <<>>]
    /\ err = <<>>
    /\ exit = -1
    /\ coord = <<>>
    /\ ticks = <<>>
    /\ naps = 0
    /\ ur = -1

Init ==
    /\ InitCommon
    /\ pc = [t \in Threads |-> IF t = "main" THEN "ec_init" ELSE "off"]
    /\ \E im \in Images : regs = InitRegs(im.t, im.a, im.seed) /\ hi = im.hi
    /\ ioperm = <<>>
    /\ script = "program"
    /\ ua = 0
    /\ uv = 0

Next ==
    \/ EcInit
    \/ DumpEnter
    \/ DumpLoop
    \/ DumpPrint
    \/ MainCreate
    \/ AcpiCall
    \/ AcpiPrint
    \/ MainJoin
    \/ MonStart
    \/ MonLoop
    \/ MonCheck
    \/ MonSleep
    \/ \E t \in Threads : ReadSteps(t)
    \/ EcStep

Spec == Init /\ [][Next]_vars

----------------------------------------------------------------------------
(* Unit harness: one thread runs ec_read(ua), ec_write(ua, uv), or          *)
(* ec_write(ua, uv) immediately followed by ec_read(ua), alone              *)

UnitWrite ==
    /\ pc["main"] = "u_start"
    /\ script \in {"write", "roundtrip"}
    /\ CallWrite("main", ua, uv)
    /\ pc' = [pc EXCEPT !["main"] = "u_write"]
    /\ UNCHANGED <<ret, st, i, ec, regs, hi, bus, out, err, exit,
                   ioperm, coord, ticks, naps, script, ua, uv, ur>>

UnitRead ==
    /\ \/ pc["main"] = "u_start" /\ script = "read"
       \/ pc["main"] = "u_write" /\ script = "roundtrip" /\ ep["main"] = "ret"
    /\ CallRead("main", ua)
    /\ pc' = [pc EXCEPT !["main"] = "u_read"]
    /\ UNCHANGED <<wval, ret, st, i, ec, regs, hi, bus, out, err, exit,
                   ioperm, coord, ticks, naps, script, ua, uv, ur>>

UnitDone ==
    /\ \/ pc["main"] = "u_read"
       \/ pc["main"] = "u_write" /\ script = "write"
    /\ ep["main"] = "ret"
    /\ ur' = IF pc["main"] = "u_read" THEN ret["main"] ELSE ur
    /\ ep' = [ep EXCEPT !["main"] = "none"]
    /\ pc' = [pc EXCEPT !["main"] = "u_done"]
    /\ UNCHANGED <<addr, wval, ret, st, i, ec, regs, hi, bus, out, err, exit,
                   ioperm, coord, ticks, naps, script, ua, uv>>

WriteSteps(t) ==
    \/ WriteOutCmd(t)
    \/ WriteOutAddr(t)
    \/ WriteOutVal(t)

InitUnit ==
    /\ InitCommon
    /\ pc = [t \in Threads |-> IF t = "main" THEN "u_start" ELSE "off"]
    /\ \E seed \in Seeds : regs = [a \in UnitAddrs |-> (a * 3 + seed) % 256]
    /\ hi \in HighBits
    /\ ioperm = <<0, 0>>
    /\ script \in {"read", "write", "roundtrip"}
    /\ ua \in UnitAddrs
    /\ uv \in UnitVals

NextUnit ==
    \/ UnitWrite
    \/ UnitRead
    \/ UnitDone
    \/ ReadSteps("main")
    \/ WriteSteps("main")
    \/ EcStep

SpecUnit == InitUnit /\ [][NextUnit]_vars

----------------------------------------------------------------------------
(* Snapshot harness: one thread calls ec_dump_selected twice, alone.  The    *)
(* position MainNext("dump") is where ec_dump_selected returns to its caller. *)

SnapReturns == Len(SelectSeq(coord, LAMBDA c : c = "dump_done"))

SnapAgain ==
    /\ script = "twice"
    /\ pc["main"] = MainNext("dump")
    /\ SnapReturns = 1
    /\ pc' = [pc EXCEPT !["main"] = "dump"]
    /\ UNCHANGED <<ep, addr, wval, ret, st, i, ec, regs, hi, bus, out, err, exit,
                   ioperm, coord, ticks, naps, script, ua, uv, ur>>

SnapDone ==
    /\ script = "twice"
    /\ pc["main"] = MainNext("dump")
    /\ SnapReturns = 2
    /\ pc' = [pc EXCEPT !["main"] = "u_done"]
    /\ UNCHANGED <<ep, addr, wval, ret, st, i, ec, regs, hi, bus, out, err, exit,
                   ioperm, coord, ticks, naps, script, ua, uv, ur>>

InitTwice ==
    /\ InitCommon
    /\ pc = [t \in Threads |-> IF t = "main" THEN "dump" ELSE "off"]
    /\ \E im \in Images : regs = InitRegs(im.t, im.a, im.seed) /\ hi = im.hi
    /\ ioperm = <<0, 0>>
    /\ script = "twice"
    /\ ua = 0
    /\ uv = 0

NextTwice ==
    \/ DumpEnter
    \/ DumpLoop
    \/ DumpPrint
    \/ SnapAgain
    \/ SnapDone
    \/ ReadSteps("main")
    \/ EcStep

SpecTwice == InitTwice /\ [][NextTwice]_vars

----------------------------------------------------------------------------
(* One thread alone against a fair EC: the main thread of the program (the   *)
(* monitor thread, once created, is not scheduled) or the unit harness.  The *)
(* thread keeps running (weak fairness of its steps) and the EC eventually   *)
(* consumes every byte written to it (weak fairness of EcStep).              *)

MainSteps ==
    \/ EcInit
    \/ DumpEnter
    \/ DumpLoop
    \/ DumpPrint
    \/ MainCreate
    \/ AcpiCall
    \/ AcpiPrint
    \/ MainJoin
    \/ UnitWrite
    \/ UnitRead
    \/ UnitDone
    \/ ReadSteps("main")
    \/ WriteSteps("main")

InitAlone == Init \/ InitUnit

NextAlone == MainSteps \/ EcStep

SpecAlone == InitAlone /\ [][NextAlone]_vars /\ WF_vars(MainSteps) /\ WF_vars(EcStep)

----------------------------------------------------------------------------
(* Helpers of the properties *)

IsPrefix(a, b) == Len(a) <= Len(b) /\ \A k \in 1..Len(a) : a[k] = b[k]

\* thread t is between the first port write and the last port access of a transaction
InFlight(t) == ep[t] \in {"rd30", "rd31", "rd32", "rd33", "wr39", "wr40", "wr41", "wr42"}

\* the port writes, i.e. the bytes the EC receives, in order
Outs == SelectSeq(bus, LAMBDA e : e.op = "out")

\* a concatenation of (command 0x80, address) sequences, the last possibly unfinished
Alternating(seq) ==
    \A k \in 1..Len(seq) :
        IF k % 2 = 1 THEN seq[k].port = 102 /\ seq[k].val = 128
        ELSE seq[k].port = 98

Count(seq, P(_)) == Len(SelectSeq(seq, P))

----------------------------------------------------------------------------
(* C1: in every reachable state of the whole program at most one ec_read /   *)
(* ec_write transaction is in flight against the ports.                      *)
C1_OneInFlight == Cardinality({t \in Threads : InFlight(t)}) <= 1

(* C2: a single ec_read(addr) run alone performs, apart from status polls,   *)
(* exactly three port accesses in this order: write 0x80 to port 0x66 after  *)
(* seeing IBF clear, write addr to port 0x62 after seeing IBF clear, read    *)
(* port 0x62 after seeing OBF set; it returns the byte read.                 *)
C2_ReadTrace(a, v) ==
    << [who |-> "main", op |-> "out", port |-> 102, val |-> 128, seen |-> 0],
       [who |-> "main", op |-> "out", port |-> 98, val |-> a, seen |-> 0],
       [who |-> "main", op |-> "in", port |-> 98, val |-> v, seen |-> 1] >>

C2_ReadSequence ==
    script = "read" =>
        /\ \E v \in 0..255 : IsPrefix(bus, C2_ReadTrace(ua, v))
        /\ ep["main"] = "ret" \/ pc["main"] = "u_done" => Len(bus) = 3
        /\ pc["main"] = "u_done" => ur = bus[3].val

C2_Witness ==
    /\ script = "read"
    /\ pc["main"] = "u_done"
    /\ Len(bus) = 3
    /\ ua = 129
    /\ ur = regs[129]

(* C3: a single ec_write(addr, value) run alone performs exactly three port  *)
(* writes in this order, each after seeing IBF clear: 0x81 to the command    *)
(* port, addr to the data port, value to the data port; it never waits for   *)
(* OBF and never reads the data port.                                        *)
C3_WriteTrace(a, v) ==
    << [who |-> "main", op |-> "out", port |-> 102, val |-> 129, seen |-> 0],
       [who |-> "main", op |-> "out", port |-> 98, val |-> a, seen |-> 0],
       [who |-> "main", op |-> "out", port |-> 98, val |-> v, seen |-> 0] >>

C3_WriteSequence ==
    (script \in {"write", "roundtrip"} /\ pc["main"] \in {"u_start", "u_write"})
    \/ (script = "write" /\ pc["main"] = "u_done") =>
        /\ IsPrefix(bus, C3_WriteTrace(ua, uv))
        /\ ep["main"] \notin ObfWaits \cup {"rd33"}
        /\ ep["main"] = "ret" \/ pc["main"] = "u_done" => bus = C3_WriteTrace(ua, uv)

C3_Witness ==
    /\ script = "write"
    /\ pc["main"] = "u_done"
    /\ Len(bus) = 3
    /\ ua = 128
    /\ uv = 129

(* C4: ec_write(A, V) immediately followed by ec_read(A) in the same thread, *)
(* with no other transaction in progress, returns V.                         *)
C4_RoundTrip ==
    script = "roundtrip" /\ pc["main"] = "u_done" => ur = uv

C4_Witness ==
    /\ script = "roundtrip"
    /\ pc["main"] = "u_done"
    /\ ua = 255
    /\ uv = 255
    /\ ur = 255

(* C5: with acpi_check's read of register 0x01 and the sampler's read of     *)
(* register 0x00 running concurrently, an interleaving is reachable in which *)
(* the bytes the EC receives are not a concatenation of (0x80, address)      *)
(* sequences (C5_Witness); and whenever the received bytes are not such a    *)
(* concatenation, a port write of one thread directly follows the command    *)
(* byte of the other, while a thread running alone always sends one.         *)
C5_Interleaved ==
    \E k \in 1..(Len(Outs) - 1) :
        /\ Outs[k].port = 102
        /\ Outs[k + 1].who /= Outs[k].who

C5_CorruptionIsInterleaving ==
    /\ ~Alternating(Outs) => C5_Interleaved
    /\ pc["mon"] = "off" => Alternating(Outs)

C5_Witness ==
    /\ ~Alternating(Outs)
    /\ \E k \in 1..(Len(Outs) - 3) :
        /\ Outs[k].who /= Outs[k + 1].who
        /\ Outs[k].port = 102 /\ Outs[k + 1].port = 102
        /\ {Outs[k + 2].val, Outs[k + 3].val} = {0, 1}
        /\ Outs[k + 2].port = 98 /\ Outs[k + 3].port = 98

(* C6: the coordinator's steps occur in this order, each at most once:       *)
(* ec_init grants port access, the snapshot runs to completion, the sampler  *)
(* thread is launched, acpi_check performs its single read, main blocks in   *)
(* the join; no port is read or written before ec_init has succeeded.        *)
C6_Order == <<"ec_init", "dump", "dump_done", "create", "acpi", "acpi_done">>

C6_IsRegister(l) == l.k = "Register"

C6_CoordinatorOrder ==
    /\ IsPrefix(coord, C6_Order)
    /\ (bus /= <<>> \/ \E t \in Threads : st[t] >= 0 \/ ep[t] /= "none")
          => ioperm = <<0, 0>>
    /\ pc["mon"] /= "off" =>
          /\ Len(coord) >= 4
          /\ Count(out["main"], C6_IsRegister) = 10
          /\ Len(bus) >= 30
    /\ Len(coord) >= 5 => pc["mon"] /= "off"
    /\ Len(coord) < 5 => \A k \in 1..Len(bus) : bus[k].val /= 1 \/ bus[k].op = "in"
    /\ pc["main"] = "join" => coord = C6_Order
    /\ pc["main"] = "join" =>
          Count(bus, LAMBDA e : e.who = "main" /\ e.op = "out" /\ e.port = 98 /\ e.val = 1) = 1

C6_Witness ==
    /\ pc["main"] = "join"
    /\ coord = C6_Order
    /\ Len(ticks) >= 1

(* C7: if the OS denies access to either port in ec_init, the process        *)
(* terminates with a non-zero exit status after a diagnostic, without        *)
(* retrying; no port is accessed, no snapshot is taken and the sampler       *)
(* thread is never started.                                                  *)
C7_DeniedIsFatal ==
    (ioperm /= <<>> /\ \E k \in 1..Len(ioperm) : ioperm[k] /= 0) =>
        /\ pc["main"] = "exited"
        /\ exit > 0
        /\ err = <<"ioperm">>
        /\ coord = <<"ec_init">>
        /\ Len(ioperm) <= 2
        /\ bus = <<>>
        /\ \A t \in Threads : st[t] = -1 /\ ep[t] = "none" /\ out[t] = <<>>
        /\ pc["mon"] = "off"

C7_Witness ==
    /\ pc["main"] = "exited"
    /\ ioperm = <<0, -1>>
    /\ exit = 1

(* C8: once port access has been granted the process never terminates on its *)
(* own: the sampler never leaves its loop and main never returns from the    *)
(* join, whatever values the EC returns.                                     *)
C8_NeverTerminates ==
    ioperm = <<0, 0>> =>
        /\ exit = -1
        /\ pc["main"] \notin {"returned", "exited"}
        /\ pc["mon"] \in {"off", "mon_start", "mon_loop", "mon_read", "mon_sleep"}

C8_Witness ==
    /\ pc["main"] = "join"
    /\ Len(ticks) >= 2
    /\ \E k \in 1..Len(ticks) : ticks[k] > 75
    /\ naps >= 1
    /\ exit = -1

(* C9: while the EC keeps IBF set, a thread in ec_wait_ibf stays in that     *)
(* wait, and while the EC keeps OBF clear, a thread in ec_wait_obf stays in  *)
(* that wait: every step leaves it there, it accesses no port but the status *)
(* port, and nothing is returned, retried or reported.                       *)
C9_Stuck(t) ==
    \/ ep[t] \in IbfWaits /\ ec.ibf = 1
    \/ ep[t] \in ObfWaits /\ ec.obf = 0

C9_WaitNeverReturns ==
    [][\A t \in Threads :
         C9_Stuck(t) =>
            /\ ep'[t] = ep[t]
            /\ pc'[t] = pc[t]
            /\ ret'[t] = ret[t]
            /\ addr'[t] = addr[t]
            /\ out'[t] = out[t]
            /\ err' = err
            /\ exit' = exit
            /\ bus' = bus \/ bus'[Len(bus')].who /= t]_vars

C9_Witness ==
    \E t \in Threads :
        /\ ep[t] \in IbfWaits
        /\ ec.ibf = 1
        /\ st[t] >= 0
        /\ (st[t] \div 2) % 2 = 1

(* C10: in every sampler tick, with v the value that tick's read returned,   *)
(* exactly one warning is emitted if v > 75 and none if v <= 75.             *)
C10_WarningPerTick ==
    \A k \in 1..Len(ticks) :
        Count(out["mon"], LAMBDA l : l.k = "Warning" /\ l.a = k)
            = IF ticks[k] > 75 THEN 1 ELSE 0

C10_Witness ==
    /\ Len(ticks) = 2
    /\ ticks[1] = 80
    /\ Count(out["mon"], LAMBDA l : l.k = "Warning" /\ l.a = 1 /\ l.v = 80) = 1

(* C11: one snapshot against an EC with a fixed value per address performs   *)
(* exactly ten read transactions, for 0x50..0x59 in that order, and prints    *)
(* one record per address in that order with the EC's value at the address,   *)
(* labelled Temperature (the value) for 0x50, Fan Speed (the value) for 0x51, *)
(* Flag (bit 0 of the value) for 0x52, and unlabelled for 0x53..0x59.         *)
C11_Record(a) ==
    <<[k |-> "Register", a |-> a, v |-> regs[a]]>>
    \o (IF a = 80 THEN <<[k |-> "Temperature", a |-> a, v |-> regs[a]]>>
        ELSE IF a = 81 THEN <<[k |-> "Fan Speed", a |-> a, v |-> regs[a]]>>
        ELSE IF a = 82 THEN <<[k |-> "Flag", a |-> a, v |-> regs[a] % 2]>>
        ELSE <<>>)

C11_Records ==
    C11_Record(80) \o C11_Record(81) \o C11_Record(82) \o C11_Record(83)
    \o C11_Record(84) \o C11_Record(85) \o C11_Record(86) \o C11_Record(87)
    \o C11_Record(88) \o C11_Record(89)

\* the port accesses of the read transactions for 0x50, 0x51, ... in order
C11_Accesses ==
    [k \in 1..30 |->
        LET a == 80 + ((k - 1) \div 3) IN
        CASE k % 3 = 1 -> [who |-> "main", op |-> "out", port |-> 102, val |-> 128, seen |-> 0]
          [] k % 3 = 2 -> [who |-> "main", op |-> "out", port |-> 98, val |-> a, seen |-> 0]
          [] OTHER -> [who |-> "main", op |-> "in", port |-> 98, val |-> regs[a], seen |-> 1]]

C11_SnapshotRecords ==
    /\ Len(coord) <= 2 =>
          /\ IsPrefix(out["main"], <<[k |-> "Dumping", a |-> 0, v |-> 0]>> \o C11_Records)
          /\ IsPrefix(bus, C11_Accesses)
    /\ Len(coord) >= 3 =>
          /\ IsPrefix(<<[k |-> "Dumping", a |-> 0, v |-> 0]>> \o C11_Records, out["main"])
          /\ IsPrefix(C11_Accesses, bus)
          /\ Count(out["main"], LAMBDA l : l.k \in {"Register", "Temperature", "Fan Speed", "Flag"}) = 13

C11_Witness ==
    /\ Len(coord) >= 3
    /\ regs[82] = 190
    /\ \E k \in 1..Len(out["main"]) : out["main"][k] = [k |-> "Flag", a |-> 82, v |-> 0]
    /\ \E k \in 1..Len(out["main"]) : out["main"][k] = [k |-> "Register", a |-> 89, v |-> regs[89]]

(* C12: in every execution of the whole program no byte is written to the    *)
(* command or data port while the EC's IBF flag is set.                       *)
C12_NoWriteWhileIbf ==
    [][(Len(bus') > Len(bus) /\ bus'[Len(bus')].op = "out") => ec.ibf = 0]_vars

(* C13: with acpi_check and the sampler running concurrently against an EC   *)
(* that answers each complete read command with one byte and clears OBF when  *)
(* the data port is read, a state is reachable (C13_Witness) in which a       *)
(* thread is blocked in ec_wait_obf for good: the sampler waits for OBF, the  *)
(* EC has nothing left to consume or to deliver, and main, in the join, will  *)
(* issue no further transaction.  From such a state no step leads out.        *)
C13_Wedged ==
    /\ ep["mon"] = "rd32"
    /\ pc["main"] = "join"
    /\ ec.ibf = 0
    /\ ec.obf = 0

C13_WedgedForever == [][C13_Wedged => C13_Wedged']_vars

C13_Witness ==
    /\ C13_Wedged
    /\ st["mon"] >= 0 /\ st["mon"] % 2 = 0
    /\ ec.mode = "idle"
    /\ Count(bus, LAMBDA e : e.who = "mon" /\ e.op = "out") = 2
    /\ Count(bus, LAMBDA e : e.who = "mon" /\ e.op = "in") = 0
    /\ ret["main"] \in {regs[0], regs[1]}

(* C14: ec_wait_ibf returns exactly when a status read has bit 1 clear and    *)
(* ec_wait_obf exactly when a status read has bit 0 set, whatever the other   *)
(* status bits are; neither wait writes a port or reads the data port.        *)
C14_WaitExits ==
    [][\A t \in Threads :
         /\ ep[t] \in IbfWaits /\ (ep'[t] /= ep[t] \/ st'[t] /= st[t]) =>
               /\ st'[t] = Status
               /\ ep'[t] /= ep[t] <=> (st'[t] \div 2) % 2 = 0
               /\ bus' = bus /\ ec' = ec
         /\ ep[t] \in ObfWaits /\ (ep'[t] /= ep[t] \/ st'[t] /= st[t]) =>
               /\ st'[t] = Status
               /\ ep'[t] /= ep[t] <=> st'[t] % 2 = 1
               /\ bus' = bus /\ ec' = ec]_vars

\* ec_wait_ibf has returned on a status byte with IBF clear and the upper bits,
\* the command bit and OBF all set
C14_Witness ==
    \E t \in Threads :
        /\ ep[t] \in {"rd29", "rd31"}
        /\ st[t] = 240 + 8 + 1

(* C15: every sampler tick issues exactly one read transaction, for register *)
(* 0x00; the sampler suspends between the end of one tick's transaction and   *)
(* the start of the next, so it never starts two read transactions without a  *)
(* suspension between them; and whether a tick warns depends only on the      *)
(* value read in that tick.                                                   *)
C15_Started == Len(ticks) + (IF pc["mon"] = "mon_read" THEN 1 ELSE 0)

C15_HotTicks ==
    SelectSeq([k \in 1..Len(ticks) |-> k], LAMBDA k : ticks[k] > 75)

C15_OneReadPerTick ==
    /\ C15_Started <= naps + 1
    /\ naps <= Len(ticks)
    /\ pc["mon"] = "mon_read" => addr["mon"] = 0 /\ ep["mon"] /= "none"
    /\ pc["mon"] /= "mon_read" => ep["mon"] = "none"
    /\ Count(bus, LAMBDA e : e.who = "mon" /\ e.op = "out" /\ e.port = 102)
          = Len(ticks) + (IF ep["mon"] \in {"rd30", "rd31", "rd32", "rd33", "ret"} THEN 1 ELSE 0)
    /\ Count(bus, LAMBDA e : e.who = "mon" /\ e.op = "out" /\ e.port = 98)
          = Len(ticks) + (IF ep["mon"] \in {"rd32", "rd33", "ret"} THEN 1 ELSE 0)
    /\ Count(bus, LAMBDA e : e.who = "mon" /\ e.op = "in")
          = Len(ticks) + (IF ep["mon"] = "ret" THEN 1 ELSE 0)
    /\ \A k \in 1..Len(bus) :
          bus[k].who = "mon" /\ bus[k].op = "out" /\ bus[k].port = 98 => bus[k].val = 0
    /\ SelectSeq(out["mon"], LAMBDA l : l.k = "Warning")
          = [j \in 1..Len(C15_HotTicks) |->
                [k |-> "Warning", a |-> C15_HotTicks[j], v |-> ticks[C15_HotTicks[j]]]]

C15_Witness ==
    /\ naps = 1
    /\ Len(ticks) = 2
    /\ ticks[1] <= 75
    /\ ticks[2] > 75
    /\ Count(bus, LAMBDA e : e.who = "mon" /\ e.op = "out" /\ e.port = 102) = 2

(* C16: a snapshot changes nothing in the EC's register contents, and two    *)
(* snapshots taken with no change of EC state in between print identical      *)
(* records.                                                                   *)
C16_ReadOnlyIdempotent ==
    /\ [](pc["main"] = "u_done" =>
            /\ Len(out["main"]) = 28
            /\ SubSeq(out["main"], 15, 28) = SubSeq(out["main"], 1, 14)
            /\ \A k \in 1..30 : bus[30 + k].val = bus[k].val)
    /\ [][regs' = regs]_vars

C16_Witness ==
    /\ script = "twice"
    /\ pc["main"] = "u_done"
    /\ Len(out["main"]) = 28
    /\ Len(bus) = 60
    /\ out["main"][21] = [k |-> "Flag", a |-> 82, v |-> 1]

(* C17: when no other transaction is in progress and the EC is fair, every   *)
(* ec_read and every ec_write eventually returns; hence the snapshot's ten    *)
(* reads all complete and the sampler thread is eventually launched.          *)
C17_Launched ==
    /\ pc["mon"] /= "off"
    /\ Count(out["main"], LAMBDA l : l.k = "Register") = 10

C17_EveryCallReturns ==
    /\ [](ep["main"] \notin {"none", "ret"} => <>(ep["main"] = "ret"))
    /\ (ioperm = <<0, 0>> /\ script = "program") ~> C17_Launched
    /\ (script = "roundtrip") ~> (pc["main"] = "u_done")

C17_Witness ==
    /\ C17_Launched
    /\ pc["main"] = "acpi_read"
    /\ ep["main"] = "ret"
    /\ Len(bus) = 33

(* C18: the snapshot's ten read transactions are never interleaved with a    *)
(* sampler transaction, because the sampler thread is created only after      *)
(* ec_dump_selected has returned; the only transaction of the main thread     *)
(* that can overlap a sampler transaction is acpi_check's read of 0x01.       *)
C18_InCall(t) == ep[t] \notin {"none", "ret"}

C18_OnlyAcpiOverlaps ==
    /\ pc["main"] \in {"ec_init", "dump", "dump_loop", "dump_read"} =>
          /\ pc["mon"] = "off"
          /\ \A k \in 1..Len(bus) : bus[k].who = "main"
    /\ \A k \in 1..Len(bus) :
          IF k <= 30 THEN bus[k].who = "main"
          ELSE bus[k].who = "main" /\ bus[k].op = "out" /\ bus[k].port = 98 => bus[k].val = 1
    /\ Count(bus, LAMBDA e : e.who = "main") <= 33
    /\ C18_InCall("main") /\ C18_InCall("mon") =>
          /\ pc["main"] = "acpi_read"
          /\ addr["main"] = 1
          /\ Len(SelectSeq(coord, LAMBDA c : c = "dump_done")) = 1

C18_Witness ==
    /\ InFlight("main")
    /\ InFlight("mon")
    /\ pc["main"] = "acpi_read"
    /\ addr["main"] = 1
    /\ addr["mon"] = 0

(* C19: in every execution of the whole program the only byte written to the *)
(* command port is 0x80 (ec_write is never called) and the only bytes written *)
(* to the data port are register addresses from {0x00, 0x01, 0x50..0x59}, in  *)
(* every interleaving of the main thread and the sampler.                     *)
C19_BytesWritten ==
    /\ \A k \in 1..Len(bus) :
          /\ bus[k].port \in {102, 98}
          /\ bus[k].op = "out" /\ bus[k].port = 102 => bus[k].val = 128
          /\ bus[k].op = "out" /\ bus[k].port = 98 => bus[k].val \in {0, 1} \cup (80..89)
          /\ bus[k].op = "in" => bus[k].port = 98
    /\ \A t \in Threads : ep[t] \in {"none", "ret", "rd28", "rd29", "rd30", "rd31", "rd32", "rd33"}
    /\ ec.mode \in {"idle", "rd_addr"}

C19_Witness ==
    /\ C5_Interleaved
    /\ {Outs[k].val : k \in 1..Len(Outs)} = {128, 0, 1} \cup (80..89)
    /\ pc["main"] = "join"
    /\ Len(ticks) = 2

====
